---- MODULE Spec2Model ----
(***************************************************************************)
(* A model of the Docent pipeline of LLM-Deliberation:                     *)
(*   src/docent/docent_trajectory_parser.py  (TrajectoryParser, main)      *)
(*   src/docent/docent_proper_ingestion.py   (ProperDocentIngestor)        *)
(*                                                                         *)
(* Text is a sequence of tokens.  A token is one of the six tags the       *)
(* parser's patterns name, a lone "<" that belongs to no such tag, one     *)
(* whitespace character, or one ordinary character ("a", "b").  A Python   *)
(* dict is a function whose DOMAIN is the set of keys present; None is a   *)
(* value that is no text.                                                  *)
(*                                                                         *)
(* Four specifications share the variables:                                *)
(*   SpecRound    _parse_round on a bounded set of raw rounds              *)
(*   SpecConvert  parse_trajectory_file, then convert_to_docent_format     *)
(*   Spec         the parser's main() over a data directory, run by run    *)
(*   SpecIngest   the uploader's ingest_to_collection on an artifact       *)
(***************************************************************************)
EXTENDS Integers, Sequences, FiniteSets, TLC

VARIABLES
    config,          \* TrajectoryParser.config
    round_data,      \* the raw round handed to _parse_round
    parsed_round,    \* what _parse_round returned (None before the call)
    rpc,             \* position of the round-level run: "input" | "parsed"
    file,            \* the trajectory file handed to parse_trajectory_file
    parsed_data,     \* what parse_trajectory_file returned
    docent_runs,     \* what convert_to_docent_format returned
    cpc,             \* position of the file-level run:
                     \*   "input" | "parsed" | "raised" | "converted"
    data_dir,        \* the files directly in the data directory
    processed_dir,   \* the files in its processed/ subdirectory
    artifact,        \* docent_prepared_data.json
    pc,              \* position of the parser's main():
                     \*   "idle" | "process" | "open" | "dump" | "move" | "done" | "crashed"
    json_files,      \* process_all_trajectories: the paths glob returned
    file_idx,        \* process_all_trajectories: files the loop has taken
    all_runs,        \* process_all_trajectories: all_runs
    processed_files, \* process_all_trajectories: processed_files
    move_idx,        \* main: files the move loop has taken
    invocation,      \* how many times main() was started
    next_id,         \* identity of the next file created
    snapshot,        \* history: the data directory as the current run found it
    archived,        \* history: <<file id, invocation>> for every file moved
    ipc,             \* position of ingest_to_collection:
                     \*   "start" | "built" | "returned" | "propagated"
    agent_runs,      \* ingest_to_collection: agent_runs
    sdk_calls,       \* history: the calls made to client.add_agent_runs
    result           \* what ingest_to_collection returned

(***************************************************************************)
(* Bounds of the model.                                                    *)
(***************************************************************************)
MaxDealLen == 5      \* longest full_answer over the DEAL alphabet
MaxContentLen == 2   \* longest content of a DEAL span in a two-span full_answer
MaxTagLen  == 5      \* longest full_answer over the SCRATCHPAD / ANSWER alphabets
MaxMixLen  == 3      \* longest full_answer over the whole alphabet
MaxRounds  == 3      \* most rounds of a trajectory
MaxFiles   == 3      \* most trajectory files ever created
MaxInvocations == 2  \* most runs of the parser's main()
MaxRuns    == 2      \* most Runs of an artifact handed to the uploader
MaxMessages == 2     \* most messages of a Run not written by the parser

(***************************************************************************)
(* Values.                                                                 *)
(***************************************************************************)
None == [i \in {0} |-> "None"]
EmptyDict == [k \in {} |-> 0]

Tags == {"<DEAL>", "</DEAL>", "<SCRATCHPAD>", "</SCRATCHPAD>", "<ANSWER>", "</ANSWER>"}
Alphabet == Tags \cup {"<", " ", "a", "b"}

StringsUpTo(S, n) == UNION {[1..k -> S] : k \in 0..n}

\* dict.get(k, default)
Get(d, k, default) == IF k \in DOMAIN d THEN d[k] ELSE default

Min(S) == CHOOSE x \in S : \A y \in S : x <= y

(***************************************************************************)
(* The regular-expression primitives the three patterns are built from.    *)
(***************************************************************************)
\* \s : one whitespace character
IsSpace(t) == t = " "

\* [^<] : one character that is not "<"; every tag begins with "<"
NotLt(t) == t \notin Tags /\ t # "<"

RECURSIVE SpaceRun(_, _)
\* the longest run of \s starting at position p
SpaceRun(s, p) ==
    IF p <= Len(s) /\ IsSpace(s[p]) THEN 1 + SpaceRun(s, p + 1) ELSE 0

RECURSIVE TextRun(_, _)
\* the longest run of [^<] starting at position p
TextRun(s, p) ==
    IF p <= Len(s) /\ NotLt(s[p]) THEN 1 + TextRun(s, p + 1) ELSE 0

RECURSIVE lstrip(_)
lstrip(s) == IF s # <<>> /\ IsSpace(Head(s)) THEN lstrip(Tail(s)) ELSE s

RECURSIVE rstrip(_)
rstrip(s) ==
    IF s # <<>> /\ IsSpace(s[Len(s)]) THEN rstrip(SubSeq(s, 1, Len(s) - 1)) ELSE s

\* str.strip()
strip(s) == rstrip(lstrip(s))

NoMatch == [ok |-> FALSE]

\* deal_pattern = r'<DEAL>\s*([^<]+)\s*</DEAL>' tried at position i.  The three
\* quantifiers are greedy and give back one character at a time, so the
\* engine's first success is the success with the longest first \s*, then the
\* longest [^<]+, then the longest second \s*.
deal_candidates(s, i) ==
    IF s[i] # "<DEAL>" THEN {}
    ELSE {c \in UNION {UNION {{<<k, m, n>> : n \in 0..SpaceRun(s, i + 1 + k + m)}
                                : m \in 1..TextRun(s, i + 1 + k)}
                                : k \in 0..SpaceRun(s, i + 1)} :
            LET e == i + 1 + c[1] + c[2] + c[3]
            IN  e <= Len(s) /\ s[e] = "</DEAL>"}

\* a pattern whose group gives its trailing whitespace back to the second \s*
\* (as r'<DEAL>\s*([^<]+?)\s*</DEAL>' does)
deal_pattern_lazy(s, i) ==
    LET cs == deal_candidates(s, i)
    IN  IF cs = {} THEN NoMatch
        ELSE LET c == CHOOSE c \in cs : \A d \in cs :
                          \/ c[1] > d[1]
                          \/ c[1] = d[1] /\ c[2] < d[2]
                          \/ c[1] = d[1] /\ c[2] = d[2] /\ c[3] >= d[3]
             IN  [ok    |-> TRUE,
                  group |-> SubSeq(s, i + 1 + c[1], i + c[1] + c[2]),
                  end   |-> i + 1 + c[1] + c[2] + c[3]]

deal_pattern(s, i) ==
    LET cs == deal_candidates(s, i)
    IN  IF cs = {} THEN NoMatch
        ELSE LET c == CHOOSE c \in cs : \A d \in cs :
                          \/ c[1] > d[1]
                          \/ c[1] = d[1] /\ c[2] > d[2]
                          \/ c[1] = d[1] /\ c[2] = d[2] /\ c[3] >= d[3]
             IN  [ok    |-> TRUE,
                  group |-> SubSeq(s, i + 1 + c[1], i + c[1] + c[2]),
                  end   |-> i + 1 + c[1] + c[2] + c[3]]

RECURSIVE findall_from(_, _)
findall_from(s, pos) ==
    IF pos > Len(s) THEN <<>>
    ELSE LET mt == deal_pattern(s, pos)
         IN  IF mt.ok THEN <<mt.group>> \o findall_from(s, mt.end + 1)
             ELSE findall_from(s, pos + 1)

\* re.findall(deal_pattern, s): the groups of the non-overlapping matches,
\* scanning left to right
findall_deals(s) == findall_from(s, 1)

\* re.search(r'<TAG>(.*?)</TAG>', s, re.DOTALL): the leftmost start that has
\* a match, and from it the shortest match
search_lazy(open, close, s) ==
    LET starts == {i \in 1..Len(s) :
                      s[i] = open /\ \E j \in (i + 1)..Len(s) : s[j] = close}
    IN  IF starts = {} THEN NoMatch
        ELSE LET i == Min(starts)
                 j == Min({j \in (i + 1)..Len(s) : s[j] = close})
             IN  [ok |-> TRUE, group |-> SubSeq(s, i + 1, j - 1)]

scratchpad_pattern(s) == search_lazy("<SCRATCHPAD>", "</SCRATCHPAD>", s)

answer_pattern(s) == search_lazy("<ANSWER>", "</ANSWER>", s)

(***************************************************************************)
(* TrajectoryParser._parse_round                                           *)
(***************************************************************************)
\* deals = re.findall(deal_pattern, round_data.get('full_answer', ''))
deals(rd) == findall_deals(Get(rd, "full_answer", <<>>))

\* a parser that forgets .strip() on the scratchpad group
scratchpad_content_unstripped(rd) ==
    LET scratchpad_match == scratchpad_pattern(Get(rd, "full_answer", <<>>))
    IN  IF scratchpad_match.ok THEN scratchpad_match.group ELSE None

\* scratchpad_content = scratchpad_match.group(1).strip() if scratchpad_match else None
scratchpad_content(rd) ==
    LET scratchpad_match == scratchpad_pattern(Get(rd, "full_answer", <<>>))
    IN  IF scratchpad_match.ok THEN strip(scratchpad_match.group) ELSE None

\* a parser that prefers the explicit public_answer field to the tag
public_answer_field_first(rd) ==
    LET answer_match == answer_pattern(Get(rd, "full_answer", <<>>))
    IN  IF "public_answer" \in DOMAIN rd THEN rd["public_answer"]
        ELSE IF answer_match.ok THEN strip(answer_match.group) ELSE <<>>

\* public_answer = answer_match.group(1).strip() if answer_match
\*                 else round_data.get('public_answer', '')
public_answer(rd) ==
    LET answer_match == answer_pattern(Get(rd, "full_answer", <<>>))
    IN  IF answer_match.ok THEN strip(answer_match.group)
        ELSE Get(rd, "public_answer", <<>>)

_parse_round(cfg, rd, round_idx) ==
    LET agent == Get(rd, "agent", "")
    IN  [round_index          |-> round_idx,
         agent                |-> agent,
         agent_config         |-> Get(cfg, agent, EmptyDict),
         prompt               |-> Get(rd, "prompt", <<>>),
         full_answer          |-> Get(rd, "full_answer", <<>>),
         public_answer        |-> public_answer(rd),
         deals_proposed       |-> deals(rd),
         scratchpad_reasoning |-> scratchpad_content(rd),
         message_length       |-> Len(Get(rd, "full_answer", <<>>)),
         has_scratchpad       |-> scratchpad_content(rd) # None,
         has_deal             |-> Len(deals(rd)) > 0]

(***************************************************************************)
(* TrajectoryParser._load_config on the lines of config.txt, each line     *)
(* already split at its commas.                                            *)
(***************************************************************************)
RECURSIVE _load_config(_)
_load_config(lines) ==
    IF lines = <<>> THEN EmptyDict
    ELSE LET parts == lines[Len(lines)]
             rest  == _load_config(SubSeq(lines, 1, Len(lines) - 1))
         IN  IF Len(parts) >= 5
             THEN [n \in DOMAIN rest \cup {parts[1]} |->
                     IF n = parts[1]
                     THEN [short_name  |-> parts[2],
                           player_type |-> parts[3],
                           strategy    |-> parts[4],
                           model       |-> parts[5]]
                     ELSE rest[n]]
             ELSE rest

ConfigLines ==
    << <<"Alice", "A1", "buyer", "aggressive", "gpt-4">>,
       <<"Bob", "B1", "seller">> >>

(***************************************************************************)
(* Exceptions: a call either returns a value or raises.                    *)
(***************************************************************************)
Raised == [raised |-> TRUE]
Returned(v) == [raised |-> FALSE, value |-> v]

(***************************************************************************)
(* A file is [name, content].  Its content is a JSON object ("dict"), a    *)
(* JSON value of another shape ("list"), or no JSON at all ("garbage").    *)
(* A round that is no JSON object is the value NotADict.                   *)
(***************************************************************************)
NotADict == [not_a_dict |-> TRUE]
IsDict(v) == "not_a_dict" \notin DOMAIN v

JsonObject(d) == [kind |-> "dict", value |-> d]
JsonList      == [kind |-> "list", value |-> EmptyDict]
Garbage       == [kind |-> "garbage", value |-> EmptyDict]

\* json.load(f): raises on text that is no JSON
json_load(content) ==
    IF content.kind = "garbage" THEN Raised ELSE Returned(content)

(***************************************************************************)
(* TrajectoryParser.parse_trajectory_file                                  *)
(***************************************************************************)
\* a loop that numbers the rounds but parses them last to first
parse_rounds_reversed(cfg, rounds) ==
    [k \in 1..Len(rounds) |-> _parse_round(cfg, rounds[Len(rounds) + 1 - k], k - 1)]

\* for round_idx, round_data in enumerate(data.get('rounds', [])): ...
parse_rounds(cfg, rounds) ==
    [k \in 1..Len(rounds) |-> _parse_round(cfg, rounds[k], k - 1)]

parse_trajectory_file(cfg, f) ==
    LET loaded == json_load(f.content)
    IN  IF loaded.raised THEN Raised
        \* data.get on a value that is no dict raises AttributeError
        ELSE IF loaded.value.kind # "dict" THEN Raised
        ELSE LET data   == loaded.value.value
                 rounds == Get(data, "rounds", <<>>)
             IN  \* round_data.get on a round that is no dict raises
                 IF \E k \in 1..Len(rounds) : ~IsDict(rounds[k]) THEN Raised
                 ELSE Returned(
                        [filename        |-> f.name,
                         slot_assignment |-> Get(data, "slot_assignment", <<>>),
                         rounds          |-> parse_rounds(cfg, rounds),
                         metadata        |->
                             [config          |-> cfg,
                              total_rounds    |-> Len(rounds),
                              finished_rounds |-> Get(data, "finished_rounds", 0)]])

(***************************************************************************)
(* TrajectoryParser.convert_to_docent_format                               *)
(***************************************************************************)
\* a converter that prefers the raw answer to the public one
assistant_content_raw_first(r) ==
    IF r.full_answer # <<>> THEN r.full_answer ELSE r.public_answer

\* round_data['public_answer'] or round_data['full_answer']
assistant_content(r) ==
    IF r.public_answer # <<>> THEN r.public_answer ELSE r.full_answer

\* the body of the loop: the messages one round appends
round_messages(r) ==
    (IF r.prompt # <<>> THEN <<[role |-> "user", content |-> r.prompt]>> ELSE <<>>)
    \o <<[role |-> "assistant", content |-> assistant_content(r)]>>

RECURSIVE messages_of(_)
\* for round_data in parsed_data['rounds']: ...
messages_of(rounds) ==
    IF rounds = <<>> THEN <<>>
    ELSE messages_of(SubSeq(rounds, 1, Len(rounds) - 1))
         \o round_messages(rounds[Len(rounds)])

convert_to_docent_format(pd) ==
    LET run == [messages |-> messages_of(pd.rounds),
                metadata |-> [filename        |-> pd.filename,
                              experiment_type |-> "multi_agent_negotiation",
                              total_rounds    |-> pd.metadata.total_rounds]]
    IN  <<run>>

(***************************************************************************)
(* Round-level specification: _parse_round applied to a bounded set of     *)
(* raw rounds.                                                             *)
(***************************************************************************)
DealAlphabet    == {"<DEAL>", "</DEAL>", "<", " ", "a", "b"}
ScratchAlphabet == {"<SCRATCHPAD>", "</SCRATCHPAD>", " ", "a"}
AnswerAlphabet  == {"<ANSWER>", "</ANSWER>", " ", "a"}

PublicAnswers == {<<>>, <<"b">>}

ContentAlphabet == {"<", " ", "a", "b"}

\* full_answers made of two DEAL spans and the text between them
TwoSpanAnswers ==
    {<<"<DEAL>">> \o A \o <<"</DEAL>">> \o mid \o <<"<DEAL>">> \o B \o <<"</DEAL>">> :
        A \in StringsUpTo(ContentAlphabet, MaxContentLen),
        B \in StringsUpTo(ContentAlphabet, MaxContentLen),
        mid \in {<<>>, <<" ">>, <<"a">>}}

\* the raw rounds of the round-level specification
IsRoundInput(rd) ==
    \* a round with a prompt and a full_answer over the DEAL alphabet
    \/ \E k \in 0..MaxDealLen : \E fa \in [1..k -> DealAlphabet] :
          rd = [agent |-> "Alice", prompt |-> <<"a">>, full_answer |-> fa]
    \/ \E fa \in TwoSpanAnswers :
          rd = [agent |-> "Alice", prompt |-> <<"a">>, full_answer |-> fa]
    \/ \E k \in 0..MaxTagLen : \E fa \in [1..k -> ScratchAlphabet] :
          rd = [agent |-> "Carol", prompt |-> <<"a">>, full_answer |-> fa]
    \* with and without the explicit public_answer field
    \/ \E k \in 0..MaxTagLen : \E fa \in [1..k -> AnswerAlphabet] :
          \/ rd = [agent |-> "Bob", full_answer |-> fa]
          \/ \E pa \in PublicAnswers :
                rd = [agent |-> "Bob", full_answer |-> fa, public_answer |-> pa]
    \/ \E k \in 0..MaxMixLen : \E fa \in [1..k -> Alphabet] :
          rd = [full_answer |-> fa, public_answer |-> <<"b">>]
    \* rounds without a full_answer
    \/ rd = [agent |-> "Dave"]
    \/ rd = [agent |-> "Dave", public_answer |-> <<"b">>]

roundVars == <<round_data, parsed_round, rpc>>
fileVars  == <<file, parsed_data, docent_runs, cpc>>
dirVars   == <<data_dir, processed_dir, artifact>>
mainVars  == <<pc, json_files, file_idx, all_runs, processed_files, move_idx>>
histVars  == <<invocation, next_id, snapshot, archived>>
ingestVars == <<ipc, agent_runs, sdk_calls, result>>
vars == <<config, roundVars, fileVars, dirVars, mainVars, histVars, ingestVars>>

NoRound == round_data = EmptyDict /\ parsed_round = EmptyDict /\ rpc = "off"
NoFile  == file = EmptyDict /\ parsed_data = EmptyDict /\ docent_runs = <<>> /\ cpc = "off"

NoResult == [returned |-> FALSE]
NoIngest == ipc = "off" /\ agent_runs = <<>> /\ sdk_calls = <<>> /\ result = NoResult

NoArtifact == [state |-> "absent", runs |-> <<>>, by |-> 0]

NoMain ==
    /\ data_dir = {} /\ processed_dir = {} /\ artifact = NoArtifact
    /\ pc = "off" /\ json_files = <<>> /\ file_idx = 0 /\ all_runs = <<>>
    /\ processed_files = <<>> /\ move_idx = 0
    /\ invocation = 0 /\ next_id = 0 /\ snapshot = {} /\ archived = {}

InitRound ==
    /\ config = _load_config(ConfigLines)
    /\ IsRoundInput(round_data)
    /\ parsed_round = EmptyDict
    /\ rpc = "input"
    /\ NoFile
    /\ NoMain
    /\ NoIngest

ParseRound ==
    /\ rpc = "input"
    /\ parsed_round' = _parse_round(config, round_data, 0)
    /\ rpc' = "parsed"
    /\ UNCHANGED <<config, round_data, fileVars, dirVars, mainVars, histVars, ingestVars>>

NextRound == ParseRound

SpecRound == InitRound /\ [][NextRound]_vars

(***************************************************************************)
(* File-level specification: parse_trajectory_file, then                   *)
(* convert_to_docent_format, applied to a bounded set of trajectory files. *)
(***************************************************************************)
Prompts == {<<"a">>, <<"b">>}

\* what a round says beside its prompt
AnswerParts ==
    { [full_answer |-> <<"a">>],
      [full_answer |-> <<"a">>, public_answer |-> <<"b">>],
      [full_answer |-> <<"<ANSWER>", " ", "b", "</ANSWER>">>, public_answer |-> <<"a">>],
      [agent |-> "Alice"] }

\* the dict that has the keys of d and e, with e's values
Merge(d, e) ==
    [k \in DOMAIN d \cup DOMAIN e |-> IF k \in DOMAIN e THEN e[k] ELSE d[k]]

RawRounds ==
    {Merge(ap, [prompt |-> pr]) : ap \in AnswerParts, pr \in Prompts \cup {<<>>}}
    \cup AnswerParts

IsTrajectoryFile(f) ==
    \/ \E k \in 0..MaxRounds : \E rs \in [1..k -> RawRounds \cup {NotADict}] :
          f = [name |-> "history1.json", content |-> JsonObject([rounds |-> rs])]
    \/ \E c \in {Garbage, JsonList, JsonObject(EmptyDict),
                  JsonObject([finished_rounds |-> 2])} :
          f = [name |-> "history1.json", content |-> c]

InitConvert ==
    /\ config = _load_config(ConfigLines)
    /\ NoRound
    /\ IsTrajectoryFile(file)
    /\ parsed_data = EmptyDict
    /\ docent_runs = <<>>
    /\ cpc = "input"
    /\ NoMain
    /\ NoIngest

ParseFileOk ==
    /\ cpc = "input"
    /\ ~parse_trajectory_file(config, file).raised
    /\ parsed_data' = parse_trajectory_file(config, file).value
    /\ cpc' = "parsed"
    /\ UNCHANGED <<config, roundVars, file, docent_runs, dirVars, mainVars, histVars, ingestVars>>

ParseFileRaises ==
    /\ cpc = "input"
    /\ parse_trajectory_file(config, file).raised
    /\ cpc' = "raised"
    /\ UNCHANGED <<config, roundVars, file, parsed_data, docent_runs, dirVars, mainVars, histVars, ingestVars>>

ConvertFile ==
    /\ cpc = "parsed"
    /\ docent_runs' = convert_to_docent_format(parsed_data)
    /\ cpc' = "converted"
    /\ UNCHANGED <<config, roundVars, file, parsed_data, dirVars, mainVars, histVars, ingestVars>>

NextConvert == ParseFileOk \/ ParseFileRaises \/ ConvertFile

SpecConvert == InitConvert /\ [][NextConvert]_vars

(***************************************************************************)
(* The parser's main() over a data directory.  A file is [id, name,        *)
(* content]; a name is [head, mid, tail], so that "history1.json" is       *)
(* ["history", 1, ".json"].  Files are created between runs; a run may die *)
(* at any point.                                                           *)
(***************************************************************************)
HistoryName(n) == [head |-> "history", mid |-> n, tail |-> ".json"]
HistoryNames == {HistoryName(n) : n \in 1..MaxFiles}
NotesName == [head |-> "notes", mid |-> 1, tail |-> ".json"]

OneRound == [agent |-> "Alice", prompt |-> <<"a">>,
             full_answer |-> <<"<ANSWER>", "b", "</ANSWER>">>]

FileContents ==
    {Garbage, JsonObject([rounds |-> <<OneRound, NotADict>>]), JsonObject([rounds |-> <<OneRound>>])}

\* fnmatch(name, "history*.json")
Matches(name) == name.head = "history" /\ name.tail = ".json"

\* self.data_dir.glob("history*.json"): the matching names directly in the
\* directory (processed/ is not descended into)
glob(dir) == {f.name : f \in {g \in dir : Matches(g.name)}}

\* the orders in which the names of S can be listed
Orders(S) ==
    {q \in [1..Cardinality(S) -> S] : \A a, b \in DOMAIN q : a # b => q[a] # q[b]}

FileNamed(dir, name) == CHOOSE f \in dir : f.name = name

\* a move that leaves the source in place
rename_as_copy(f, src, dst) ==
    [src |-> src, dst |-> {g \in dst : g.name # f.name} \cup {f}]

\* json_file.rename(destination): the file leaves src and replaces whatever
\* dst held under its name
rename(f, src, dst) ==
    [src |-> src \ {f}, dst |-> {g \in dst : g.name # f.name} \cup {f}]

Init ==
    /\ config = _load_config(ConfigLines)
    /\ NoRound
    /\ NoFile
    /\ data_dir = {[id |-> 0, name |-> NotesName, content |-> JsonObject([rounds |-> <<OneRound>>])]}
    /\ processed_dir = {}
    /\ artifact = NoArtifact
    /\ pc = "idle"
    /\ json_files = <<>>
    /\ file_idx = 0
    /\ all_runs = <<>>
    /\ processed_files = <<>>
    /\ move_idx = 0
    /\ invocation = 0
    /\ next_id = 1
    /\ snapshot = {}
    /\ archived = {}
    /\ NoIngest

Resting == pc \in {"idle", "done", "crashed"}

\* the names files have borne so far, and the first name none has borne (the
\* history names are interchangeable)
UsedNames == {f.name : f \in data_dir \cup processed_dir}
FreshNames ==
    {HistoryName(n) : n \in {m \in 1..MaxFiles :
        /\ HistoryName(m) \notin UsedNames
        /\ \A l \in 1..(m - 1) : HistoryName(l) \in UsedNames}}

\* the environment drops a new trajectory file into the data directory
AddFile ==
    /\ Resting
    /\ next_id <= MaxFiles
    /\ \E name \in (HistoryNames \cap UsedNames) \cup FreshNames, content \in FileContents :
          /\ \A f \in data_dir : f.name # name
          /\ data_dir' = data_dir \cup {[id |-> next_id, name |-> name, content |-> content]}
    /\ next_id' = next_id + 1
    /\ UNCHANGED <<config, roundVars, fileVars, ingestVars, processed_dir, artifact, mainVars,
                   invocation, snapshot, archived>>

\* main(): TrajectoryParser(data_dir), then process_all_trajectories up to its loop
StartMain ==
    /\ Resting
    /\ invocation < MaxInvocations
    /\ config' = _load_config(ConfigLines)
    /\ json_files' \in Orders(glob(data_dir))
    /\ file_idx' = 0
    /\ all_runs' = <<>>
    /\ processed_files' = <<>>
    /\ move_idx' = 0
    /\ pc' = "process"
    /\ invocation' = invocation + 1
    /\ snapshot' = data_dir
    /\ UNCHANGED <<roundVars, fileVars, ingestVars, dirVars, next_id, archived>>

CurrentFile == FileNamed(data_dir, json_files[file_idx + 1])

\* the loop body when neither call raises
ProcessFileOk ==
    /\ pc = "process"
    /\ file_idx < Len(json_files)
    /\ ~parse_trajectory_file(config, CurrentFile).raised
    /\ LET parsed == parse_trajectory_file(config, CurrentFile).value
       IN  all_runs' = all_runs \o convert_to_docent_format(parsed)
    /\ processed_files' = Append(processed_files, json_files[file_idx + 1])
    /\ file_idx' = file_idx + 1
    /\ UNCHANGED <<config, roundVars, fileVars, ingestVars, dirVars, pc, json_files, move_idx, histVars>>

\* an error handler that leaves the loop
ProcessFileRaisesBreaks ==
    /\ pc = "process"
    /\ file_idx < Len(json_files)
    /\ parse_trajectory_file(config, CurrentFile).raised
    /\ file_idx' = Len(json_files)
    /\ UNCHANGED <<config, roundVars, fileVars, ingestVars, dirVars, pc, json_files, all_runs,
                   processed_files, move_idx, histVars>>

\* the loop body when parse_trajectory_file raises: except Exception, print, go on
ProcessFileRaises ==
    /\ pc = "process"
    /\ file_idx < Len(json_files)
    /\ parse_trajectory_file(config, CurrentFile).raised
    /\ file_idx' = file_idx + 1
    /\ UNCHANGED <<config, roundVars, fileVars, ingestVars, dirVars, pc, json_files, all_runs,
                   processed_files, move_idx, histVars>>

\* an open(output_file, 'a'), which keeps what the artifact held
OpenArtifactAppendMode ==
    /\ pc = "process"
    /\ file_idx = Len(json_files)
    /\ artifact' = [state |-> "partial", runs |-> artifact.runs, by |-> invocation]
    /\ pc' = "dump"
    /\ UNCHANGED <<config, roundVars, fileVars, ingestVars, data_dir, processed_dir, json_files,
                   file_idx, all_runs, processed_files, move_idx, histVars>>

\* process_all_trajectories returns; main(): open(output_file, 'w') truncates
OpenArtifact ==
    /\ pc = "process"
    /\ file_idx = Len(json_files)
    /\ artifact' = [state |-> "partial", runs |-> <<>>, by |-> invocation]
    /\ pc' = "dump"
    /\ UNCHANGED <<config, roundVars, fileVars, ingestVars, data_dir, processed_dir, json_files,
                   file_idx, all_runs, processed_files, move_idx, histVars>>

\* json.dump(docent_runs, f, indent=2) writes after what the open left in the
\* file, and the with block closes it; then "if processed_files:" chooses
\* between the move loop and the summary
DumpArtifact ==
    /\ pc = "dump"
    /\ artifact' = [state |-> "written", runs |-> artifact.runs \o all_runs, by |-> invocation]
    /\ pc' = IF processed_files # <<>> THEN "move" ELSE "done"
    /\ UNCHANGED <<config, roundVars, fileVars, ingestVars, data_dir, processed_dir, json_files,
                   file_idx, all_runs, processed_files, move_idx, histVars>>

\* one turn of "for json_file in processed_files: json_file.rename(destination)"
MoveFile ==
    /\ pc = "move"
    /\ move_idx < Len(processed_files)
    /\ LET f == FileNamed(data_dir, processed_files[move_idx + 1])
           r == rename(f, data_dir, processed_dir)
       IN  /\ data_dir' = r.src
           /\ processed_dir' = r.dst
           /\ archived' = archived \cup {<<f.id, invocation>>}
    /\ move_idx' = move_idx + 1
    /\ UNCHANGED <<config, roundVars, fileVars, ingestVars, artifact, pc, json_files, file_idx,
                   all_runs, processed_files, invocation, next_id, snapshot>>

\* the move loop ends; the summary is printed and main() returns
FinishMain ==
    /\ pc = "move"
    /\ move_idx = Len(processed_files)
    /\ pc' = "done"
    /\ UNCHANGED <<config, roundVars, fileVars, ingestVars, dirVars, json_files, file_idx, all_runs,
                   processed_files, move_idx, histVars>>

\* the process dies (killed, disk full, ...) wherever it is
Crash ==
    /\ pc \in {"process", "dump", "move"}
    /\ pc' = "crashed"
    /\ UNCHANGED <<config, roundVars, fileVars, ingestVars, dirVars, json_files, file_idx, all_runs,
                   processed_files, move_idx, histVars>>

Next ==
    \/ AddFile
    \/ StartMain
    \/ ProcessFileOk
    \/ ProcessFileRaises
    \/ OpenArtifact
    \/ DumpArtifact
    \/ MoveFile
    \/ FinishMain
    \/ Crash

Spec == Init /\ [][Next]_vars

(***************************************************************************)
(* ProperDocentIngestor: create_agent_runs_from_data and                   *)
(* ingest_to_collection, applied to an artifact.                           *)
(***************************************************************************)
\* float(x): the floating-point number of value x
float(x) == [float |-> x]

UserMessage(content) == [type |-> "UserMessage", content |-> content]
AssistantMessage(content) == [type |-> "AssistantMessage", content |-> content]

RECURSIVE typed_messages(_)
\* for msg in run_data['messages']: a user or assistant message is appended
\* as its class, a message of another role is passed over
typed_messages(msgs) ==
    IF msgs = <<>> THEN <<>>
    ELSE LET msg  == msgs[Len(msgs)]
             rest == typed_messages(SubSeq(msgs, 1, Len(msgs) - 1))
         IN  IF msg.role = "user" THEN Append(rest, UserMessage(msg.content))
             ELSE IF msg.role = "assistant" THEN Append(rest, AssistantMessage(msg.content))
             ELSE rest

\* scores that count the messages of the artifact and number sessions from 0
scores_from_source(run_data, messages, i) ==
    [total_rounds  |-> float(Get(run_data.metadata, "total_rounds", 0)),
     message_count |-> float(Len(run_data.messages)),
     session_id    |-> float(i)]

\* the scores of BaseAgentRunMetadata; i is the 0-based index of enumerate
scores(run_data, messages, i) ==
    [total_rounds  |-> float(Get(run_data.metadata, "total_rounds", 0)),
     message_count |-> float(Len(messages)),
     session_id    |-> float(i + 1)]

\* the body of the loop of create_agent_runs_from_data
agent_run(run_data, i) ==
    LET messages == typed_messages(run_data.messages)
        transcript ==
            [name        |-> <<"Negotiation Session", i + 1>>,
             description |-> <<"Multi-agent negotiation from", run_data.metadata["filename"]>>,
             messages    |-> messages]
    IN  [name        |-> <<"Negotiation Session", i + 1>>,
         description |-> <<"Agent negotiation session from", run_data.metadata["filename"]>>,
         transcripts |-> [main |-> transcript],
         metadata    |-> [scores |-> scores(run_data, messages, i)]]

create_agent_runs_from_data(art) ==
    \* open() raises on a missing file, json.load on one that was not written out
    IF art.state # "written" THEN Raised
    \* run_data['metadata']['filename'] raises KeyError
    ELSE IF \E k \in 1..Len(art.runs) : "filename" \notin DOMAIN art.runs[k].metadata
    THEN Raised
    ELSE Returned([k \in 1..Len(art.runs) |-> agent_run(art.runs[k], k - 1)])

\* collection_id of main()
CollectionId == "de941abb-54e7-4425-8535-b87d1758eb59"

\* the Runs the parser writes for a few files
ParserRuns ==
    {convert_to_docent_format(
        parse_trajectory_file(_load_config(ConfigLines),
                              [name |-> n, content |-> JsonObject([rounds |-> rs])]).value)[1] :
        n \in {HistoryName(1), HistoryName(2)},
        rs \in {<<>>, <<OneRound>>, <<[full_answer |-> <<"a">>]>>,
                <<OneRound, [prompt |-> <<"b">>, public_answer |-> <<"b">>]>>}}

\* Runs as another writer may have put them into the artifact
ForeignMessages ==
    UNION {[1..k -> {[role |-> r, content |-> <<"a">>] : r \in {"user", "assistant", "system"}}] :
              k \in 0..MaxMessages}

ForeignRuns ==
    {[messages |-> ms, metadata |-> md] :
        ms \in ForeignMessages,
        md \in {[filename |-> HistoryName(1), total_rounds |-> 2],
                [filename |-> HistoryName(1)]}}
    \cup {[messages |-> <<>>, metadata |-> [total_rounds |-> 1]]}

InitIngest ==
    /\ config = _load_config(ConfigLines)
    /\ NoRound
    /\ NoFile
    /\ data_dir = {} /\ processed_dir = {}
    /\ pc = "off" /\ json_files = <<>> /\ file_idx = 0 /\ all_runs = <<>>
    /\ processed_files = <<>> /\ move_idx = 0
    /\ invocation = 0 /\ next_id = 0 /\ snapshot = {} /\ archived = {}
    /\ \/ \E k \in 0..MaxRuns : \E rs \in [1..k -> ParserRuns] :
            artifact = [state |-> "written", runs |-> rs, by |-> 1]
       \/ \E k \in 1..MaxRuns : \E rs \in [1..k -> ForeignRuns] :
            artifact = [state |-> "written", runs |-> rs, by |-> 0]
       \/ artifact = NoArtifact
       \/ artifact = [state |-> "partial", runs |-> <<>>, by |-> 1]
    /\ ipc = "start"
    /\ agent_runs = <<>>
    /\ sdk_calls = <<>>
    /\ result = NoResult

ingestFrame == <<config, roundVars, fileVars, dirVars, mainVars, histVars>>

\* agent_runs = self.create_agent_runs_from_data()
CreateAgentRuns ==
    /\ ipc = "start"
    /\ ~create_agent_runs_from_data(artifact).raised
    /\ agent_runs' = create_agent_runs_from_data(artifact).value
    /\ ipc' = "built"
    /\ UNCHANGED <<ingestFrame, sdk_calls, result>>

\* the same call raising: it stands outside the try, so the exception leaves
\* ingest_to_collection
CreateAgentRunsRaises ==
    /\ ipc = "start"
    /\ create_agent_runs_from_data(artifact).raised
    /\ ipc' = "propagated"
    /\ UNCHANGED <<ingestFrame, agent_runs, sdk_calls, result>>

\* client.add_agent_runs returns: return True, len(agent_runs)
SubmitReturns ==
    /\ ipc = "built"
    /\ sdk_calls' = Append(sdk_calls, [collection_id |-> CollectionId,
                                       agent_runs |-> agent_runs, outcome |-> "returned"])
    /\ result' = [returned |-> TRUE, success |-> TRUE, count |-> Len(agent_runs)]
    /\ ipc' = "returned"
    /\ UNCHANGED <<ingestFrame, agent_runs>>

\* a handler that reports how many runs it tried to submit
SubmitRaisesReportsCount ==
    /\ ipc = "built"
    /\ sdk_calls' = Append(sdk_calls, [collection_id |-> CollectionId,
                                       agent_runs |-> agent_runs, outcome |-> "raised"])
    /\ result' = [returned |-> TRUE, success |-> FALSE, count |-> Len(agent_runs)]
    /\ ipc' = "returned"
    /\ UNCHANGED <<ingestFrame, agent_runs>>

\* client.add_agent_runs raises: except Exception, print, return False, 0
SubmitRaises ==
    /\ ipc = "built"
    /\ sdk_calls' = Append(sdk_calls, [collection_id |-> CollectionId,
                                       agent_runs |-> agent_runs, outcome |-> "raised"])
    /\ result' = [returned |-> TRUE, success |-> FALSE, count |-> 0]
    /\ ipc' = "returned"
    /\ UNCHANGED <<ingestFrame, agent_runs>>

NextIngest == CreateAgentRuns \/ CreateAgentRunsRaises \/ SubmitReturns \/ SubmitRaises

SpecIngest == InitIngest /\ [][NextIngest]_vars

(***************************************************************************)
(* Properties of _parse_round.  The spans are described here by positions  *)
(* in full_answer, independently of the pattern engine above.              *)
(***************************************************************************)
RawAnswer == Get(round_data, "full_answer", <<>>)

\* s[i] opens and s[j] closes the first <TAG>...</TAG> span of s
FirstSpan(s, open, close, i, j) ==
    /\ i < j /\ s[i] = open /\ s[j] = close
    /\ \A h \in 1..(i - 1) : s[h] # open
    /\ \A h \in (i + 1)..(j - 1) : s[h] # close

HasSpan(s, open, close) ==
    \E i, j \in 1..Len(s) : i < j /\ s[i] = open /\ s[j] = close

\* r is x without its leading and trailing whitespace
IsTrimOf(r, x) ==
    /\ r # None
    /\ \E a \in 0..Len(x) :
          /\ a + Len(r) <= Len(x)
          /\ r = SubSeq(x, a + 1, a + Len(r))
          /\ \A h \in 1..a : IsSpace(x[h])
          /\ \A h \in (a + Len(r) + 1)..Len(x) : IsSpace(x[h])
          /\ r # <<>> => ~IsSpace(r[1]) /\ ~IsSpace(r[Len(r)])

\* C4: whenever full_answer holds an <ANSWER>...</ANSWER> span, public_answer
\* is the trimmed content of the first such span, whatever the explicit
\* public_answer field says (also when that content is empty); with no span it
\* is the explicit field, and the empty string when the field is absent too.
C4_PublicAnswerPrecedence ==
    rpc = "parsed" =>
        /\ \A i, j \in 1..Len(RawAnswer) :
              FirstSpan(RawAnswer, "<ANSWER>", "</ANSWER>", i, j) =>
                  IsTrimOf(parsed_round.public_answer, SubSeq(RawAnswer, i + 1, j - 1))
        /\ ~HasSpan(RawAnswer, "<ANSWER>", "</ANSWER>") =>
              /\ "public_answer" \in DOMAIN round_data =>
                    parsed_round.public_answer = round_data["public_answer"]
              /\ "public_answer" \notin DOMAIN round_data =>
                    parsed_round.public_answer = <<>>

\* a round with both an <ANSWER> span holding " a " and an explicit field "b":
\* the parsed public answer is "a"
C4_Witness ==
    /\ rpc = "parsed"
    /\ "public_answer" \in DOMAIN round_data
    /\ round_data["public_answer"] = <<"b">>
    /\ RawAnswer = <<"<ANSWER>", " ", "a", " ", "</ANSWER>">>
    /\ parsed_round.public_answer = <<"a">>

\* s is exactly two DEAL spans, opened at i1, i2 and closed at j1, j2, with no
\* other DEAL tag anywhere
TwoDealSpans(s, i1, j1, i2, j2) ==
    /\ i1 < j1 /\ j1 < i2 /\ i2 < j2
    /\ s[i1] = "<DEAL>" /\ s[j1] = "</DEAL>" /\ s[i2] = "<DEAL>" /\ s[j2] = "</DEAL>"
    /\ \A h \in 1..Len(s) :
          h \notin {i1, j1, i2, j2} => s[h] \notin {"<DEAL>", "</DEAL>"}

\* text with at least one character and no "<"
PlainText(x) == x # <<>> /\ \A h \in 1..Len(x) : NotLt(x[h])

\* r is x without its leading whitespace, except that the last character of
\* x is always kept
IsLeadTrimOf(r, x) ==
    \E a \in 0..(Len(x) - 1) :
        /\ r = SubSeq(x, a + 1, Len(x))
        /\ \A h \in 1..a : IsSpace(x[h])
        /\ Len(r) = 1 \/ ~IsSpace(r[1])

\* C5 as stated, taken for the contents it is most plainly about (A and B
\* non-empty text without "<"): no <DEAL> tag gives no deal; two spans
\* <DEAL>A</DEAL> and <DEAL>B</DEAL> give deals_proposed = [A, B]; has_deal is
\* true exactly when deals_proposed is non-empty.
C5_DealsAreSpanContents ==
    rpc = "parsed" =>
        /\ (\A h \in 1..Len(RawAnswer) : RawAnswer[h] # "<DEAL>") =>
              parsed_round.deals_proposed = <<>> /\ ~parsed_round.has_deal
        /\ \A i1, j1, i2, j2 \in 1..Len(RawAnswer) :
              LET A == SubSeq(RawAnswer, i1 + 1, j1 - 1)
                  B == SubSeq(RawAnswer, i2 + 1, j2 - 1)
              IN  TwoDealSpans(RawAnswer, i1, j1, i2, j2) /\ PlainText(A) /\ PlainText(B) =>
                      parsed_round.deals_proposed = <<A, B>>
        /\ parsed_round.has_deal <=> parsed_round.deals_proposed # <<>>

\* C5 as amended: no <DEAL> tag gives no deal; two spans whose contents A and
\* B are non-empty and hold no "<" give deals_proposed = [A', B'] in source
\* order, X' being X without its leading whitespace (a content of whitespace
\* alone keeps its last character; trailing whitespace stays); has_deal is
\* true exactly when deals_proposed is non-empty.
C5_DealExtraction ==
    rpc = "parsed" =>
        /\ (\A h \in 1..Len(RawAnswer) : RawAnswer[h] # "<DEAL>") =>
              parsed_round.deals_proposed = <<>> /\ ~parsed_round.has_deal
        /\ \A i1, j1, i2, j2 \in 1..Len(RawAnswer) :
              LET A == SubSeq(RawAnswer, i1 + 1, j1 - 1)
                  B == SubSeq(RawAnswer, i2 + 1, j2 - 1)
              IN  TwoDealSpans(RawAnswer, i1, j1, i2, j2) /\ PlainText(A) /\ PlainText(B) =>
                      /\ Len(parsed_round.deals_proposed) = 2
                      /\ IsLeadTrimOf(parsed_round.deals_proposed[1], A)
                      /\ IsLeadTrimOf(parsed_round.deals_proposed[2], B)
        /\ parsed_round.has_deal <=> parsed_round.deals_proposed # <<>>

\* two spans, the first with whitespace on both sides of its text: the leading
\* whitespace is gone, the trailing whitespace is kept
C5_Witness ==
    /\ rpc = "parsed"
    /\ RawAnswer = <<"<DEAL>", " ", "a", "</DEAL>", " ", "<DEAL>", "b", " ", "</DEAL>">>
    /\ parsed_round.deals_proposed = << <<"a">>, <<"b", " ">> >>
    /\ parsed_round.has_deal

\* C6: when full_answer holds <SCRATCHPAD>X</SCRATCHPAD>, scratchpad_reasoning
\* is the content X of the first such span without its surrounding whitespace
\* and has_scratchpad is true; with no such span scratchpad_reasoning is None
\* and has_scratchpad is false.
C6_ScratchpadExtraction ==
    rpc = "parsed" =>
        /\ \A i, j \in 1..Len(RawAnswer) :
              FirstSpan(RawAnswer, "<SCRATCHPAD>", "</SCRATCHPAD>", i, j) =>
                  /\ IsTrimOf(parsed_round.scratchpad_reasoning,
                              SubSeq(RawAnswer, i + 1, j - 1))
                  /\ parsed_round.has_scratchpad
        /\ ~HasSpan(RawAnswer, "<SCRATCHPAD>", "</SCRATCHPAD>") =>
              parsed_round.scratchpad_reasoning = None /\ ~parsed_round.has_scratchpad

\* a scratchpad span whose content has whitespace on both sides
C6_Witness ==
    /\ rpc = "parsed"
    /\ RawAnswer = <<"<SCRATCHPAD>", " ", "a", " ", "</SCRATCHPAD>">>
    /\ parsed_round.scratchpad_reasoning = <<"a">>
    /\ parsed_round.has_scratchpad

(***************************************************************************)
(* Properties of parse_trajectory_file and convert_to_docent_format.       *)
(***************************************************************************)
\* the rounds of the input file, as written in it
RawRoundsOfFile == Get(file.content.value, "rounds", <<>>)

EveryPromptNonEmpty ==
    \A k \in 1..Len(RawRoundsOfFile) :
        /\ "prompt" \in DOMAIN RawRoundsOfFile[k]
        /\ RawRoundsOfFile[k]["prompt"] # <<>>

\* the content the assistant message of a parsed round must carry
ExpectedContent(r) == IF r.public_answer = <<>> THEN r.full_answer ELSE r.public_answer

\* C2: a trajectory of N rounds, each with a non-empty prompt, becomes one Run
\* of exactly 2N messages, user then assistant for each round in turn, the
\* k-th pair carrying the prompt and the answer of the k-th round of the file.
C2_TwoMessagesPerRound ==
    cpc = "converted" /\ EveryPromptNonEmpty =>
        /\ Len(docent_runs) = 1
        /\ LET msgs == docent_runs[1].messages
                N    == Len(RawRoundsOfFile)
            IN  /\ Len(msgs) = 2 * N
                /\ \A k \in 1..N :
                      /\ msgs[2 * k - 1].role = "user"
                      /\ msgs[2 * k - 1].content = RawRoundsOfFile[k]["prompt"]
                      /\ msgs[2 * k].role = "assistant"
                      /\ msgs[2 * k].content =
                            ExpectedContent(_parse_round(config, RawRoundsOfFile[k], k - 1))

\* three rounds with prompts that differ, six messages
C2_Witness ==
    /\ cpc = "converted"
    /\ EveryPromptNonEmpty
    /\ Len(RawRoundsOfFile) = 3
    /\ RawRoundsOfFile[1]["prompt"] # RawRoundsOfFile[2]["prompt"]
    /\ Get(RawRoundsOfFile[1], "full_answer", <<>>) # Get(RawRoundsOfFile[3], "full_answer", <<>>)
    /\ Len(docent_runs[1].messages) = 6

\* the position of the assistant message of round k
AssistantPos(rounds, k) == k + Cardinality({h \in 1..k : rounds[h].prompt # <<>>})

\* C3: convert_to_docent_format returns exactly one Run; for each round in
\* order it holds a user message with the prompt exactly when the prompt is
\* non-empty, then one assistant message whose content is the public answer
\* when that is non-empty and the raw full_answer otherwise; and it holds no
\* other message.
C3_ConvertPerRound ==
    cpc = "converted" =>
        /\ Len(docent_runs) = 1
        /\ LET msgs   == docent_runs[1].messages
                rounds == parsed_data.rounds
                N      == Len(rounds)
            IN  /\ Len(msgs) = AssistantPos(rounds, N)
                /\ \A k \in 1..N :
                      /\ msgs[AssistantPos(rounds, k)] =
                            [role |-> "assistant", content |-> ExpectedContent(rounds[k])]
                      /\ rounds[k].prompt # <<>> =>
                            msgs[AssistantPos(rounds, k) - 1] =
                                [role |-> "user", content |-> rounds[k].prompt]

\* a trajectory with a round without prompt, a round with one, a round whose
\* public answer is used and a round whose raw answer is used
C3_Witness ==
    /\ cpc = "converted"
    /\ \E k, h, p, q \in 1..Len(parsed_data.rounds) :
          /\ parsed_data.rounds[k].prompt = <<>>
          /\ parsed_data.rounds[h].prompt # <<>>
          /\ parsed_data.rounds[p].public_answer # <<>>
          /\ parsed_data.rounds[q].public_answer = <<>>
          /\ parsed_data.rounds[q].full_answer # <<>>
          /\ docent_runs[1].messages[AssistantPos(parsed_data.rounds, p)].content
                = parsed_data.rounds[p].public_answer
          /\ docent_runs[1].messages[AssistantPos(parsed_data.rounds, q)].content
                = parsed_data.rounds[q].full_answer
    /\ Len(docent_runs[1].messages) < 2 * Len(parsed_data.rounds)

(***************************************************************************)
(* Properties of process_all_trajectories and the parser's main().         *)
(***************************************************************************)
InRun == pc \in {"process", "dump", "move", "done"}
LoopOver == pc \in {"dump", "move", "done"}

\* the file the current run found under a name
ThisRunFile(name) == FileNamed(snapshot, name)

FileSucceeds(name) == ~parse_trajectory_file(config, ThisRunFile(name)).raised

\* the Run of a file that does not raise
RunOf(name) ==
    convert_to_docent_format(parse_trajectory_file(config, ThisRunFile(name)).value)[1]

\* the files moved by the current run, and by the runs before it
MovedNow == {a[1] : a \in {b \in archived : b[2] = invocation}}
MovedEarlier == {a[1] : a \in {b \in archived : b[2] < invocation}}

\* C1: a file that raises stops nothing: the loop takes every discovered file;
\* processed_files is the discovered files that did not raise, in discovery
\* order; all_runs holds exactly one Run for each of them, in that order, and
\* none for a file that raised; and only those files are archived.
C1_IsolatedFailures ==
    InRun =>
        /\ processed_files = SelectSeq(SubSeq(json_files, 1, file_idx), FileSucceeds)
        /\ Len(all_runs) = Len(processed_files)
        /\ \A k \in 1..Len(all_runs) : all_runs[k] = RunOf(processed_files[k])
        /\ LoopOver => file_idx = Len(json_files)
        /\ MovedNow \subseteq {ThisRunFile(processed_files[k]).id : k \in 1..Len(processed_files)}
        /\ pc = "done" =>
              MovedNow = {ThisRunFile(processed_files[k]).id : k \in 1..Len(processed_files)}

\* three files, the second of which raises: Runs and archive hold files 1 and 3
C1_Witness ==
    /\ pc = "done"
    /\ Len(json_files) = 3
    /\ FileSucceeds(json_files[1]) /\ ~FileSucceeds(json_files[2]) /\ FileSucceeds(json_files[3])
    /\ processed_files = <<json_files[1], json_files[3]>>
    /\ Len(all_runs) = 2
    /\ all_runs[1].metadata.filename = json_files[1]
    /\ all_runs[2].metadata.filename = json_files[3]
    /\ Cardinality(MovedNow) = 2

\* C7: when main() has completed, every file it processed is in processed/
\* and no longer in the data directory, and every file that raised is still in
\* the data directory; and no run discovers a file that an earlier run archived.
C7_ArchivalPreventsReprocessing ==
    /\ pc = "done" =>
          \A k \in 1..Len(json_files) :
              LET f == ThisRunFile(json_files[k])
              IN  /\ FileSucceeds(json_files[k]) => f \in processed_dir /\ f \notin data_dir
                  /\ ~FileSucceeds(json_files[k]) => f \in data_dir /\ f \notin processed_dir
    /\ InRun \/ pc = "crashed" =>
          \A k \in 1..Len(json_files) : ThisRunFile(json_files[k]).id \notin MovedEarlier

\* a second run that completes after a first one archived a file: it finds a
\* file that raises and archives another
C7_Witness ==
    /\ pc = "done"
    /\ invocation = 2
    /\ MovedEarlier # {}
    /\ MovedNow # {}
    /\ \E k \in 1..Len(json_files) : ~FileSucceeds(json_files[k])

\* C10: the artifact is written in full before the first file is moved, and
\* also when nothing was processed; every file the current run has moved has its
\* Run in the artifact this run wrote; and that artifact holds the Runs of the
\* current run alone, none of a file archived by an earlier run.
C10_ArtifactBeforeMoves ==
    /\ pc \in {"move", "done"} =>
          artifact = [state |-> "written", runs |-> all_runs, by |-> invocation]
    /\ InRun \/ pc = "crashed" =>
          \A f \in snapshot : f.id \in MovedNow =>
              /\ artifact.state = "written" /\ artifact.by = invocation
              /\ \E k \in 1..Len(artifact.runs) : artifact.runs[k] = RunOf(f.name)
    /\ artifact.state = "written" /\ artifact.by = invocation =>
          /\ Len(artifact.runs) = Len(processed_files)
          /\ \A k \in 1..Len(artifact.runs) :
                /\ artifact.runs[k] = RunOf(processed_files[k])
                /\ ThisRunFile(artifact.runs[k].metadata.filename).id \notin MovedEarlier

\* the second run, between two of its moves, after the first run archived a file
C10_Witness ==
    /\ pc = "move"
    /\ invocation = 2
    /\ MovedEarlier # {}
    /\ 0 < move_idx /\ move_idx < Len(processed_files)
    /\ Len(artifact.runs) = 2

(***************************************************************************)
(* Properties of the uploader.                                             *)
(***************************************************************************)
\* the positions of the messages of a Run that the transcript takes
Kept(msgs) == {k \in 1..Len(msgs) : msgs[k].role \in {"user", "assistant"}}

TypeOfRole(role) == IF role = "user" THEN "UserMessage" ELSE "AssistantMessage"

\* C8: one AgentRun per Run of the artifact, in artifact order; the i-th has
\* session_id i, total_rounds the Run's total_rounds (0 when absent) and
\* message_count the number of messages in its transcript; for an artifact the
\* parser wrote, message_count is the length of the Run's message list and the
\* transcript keeps the order and the role of every message.
C8_AgentRunPerRun ==
    ipc \in {"built", "returned"} =>
        /\ Len(agent_runs) = Len(artifact.runs)
        /\ \A i \in 1..Len(agent_runs) :
              LET run == artifact.runs[i]
                  ar  == agent_runs[i]
                  tm  == ar.transcripts.main.messages
              IN  /\ ar.description[2] = run.metadata["filename"]
                  /\ ar.metadata.scores.session_id = float(i)
                  /\ "total_rounds" \in DOMAIN run.metadata =>
                        ar.metadata.scores.total_rounds = float(run.metadata["total_rounds"])
                  /\ "total_rounds" \notin DOMAIN run.metadata =>
                        ar.metadata.scores.total_rounds = float(0)
                  /\ ar.metadata.scores.message_count = float(Len(tm))
                  /\ Len(tm) = Cardinality(Kept(run.messages))
                  /\ artifact.by >= 1 =>
                        /\ ar.metadata.scores.message_count = float(Len(run.messages))
                        /\ \A k \in 1..Len(run.messages) :
                              /\ tm[k].type = TypeOfRole(run.messages[k].role)
                              /\ tm[k].content = run.messages[k].content

\* two AgentRuns built from an artifact of the parser, the second with messages
C8_Witness ==
    /\ ipc = "built"
    /\ artifact.by = 1
    /\ Len(agent_runs) = 2
    /\ agent_runs[2].metadata.scores =
          [total_rounds |-> float(2), message_count |-> float(4), session_id |-> float(2)]
    /\ agent_runs[1].metadata.scores.message_count = float(1)

\* C9: ingest_to_collection calls add_agent_runs exactly once, with the whole
\* batch; when the call returns the result is (True, n), n the number of
\* AgentRuns built; when it raises the result is (False, 0); there is no second
\* call and no other count.
C9_OneCallOneOutcome ==
    /\ Len(sdk_calls) <= 1
    /\ ipc = "returned" =>
          /\ Len(sdk_calls) = 1
          /\ sdk_calls[1].agent_runs = agent_runs
          /\ sdk_calls[1].collection_id = CollectionId
          /\ sdk_calls[1].outcome = "returned" =>
                result = [returned |-> TRUE, success |-> TRUE, count |-> Len(agent_runs)]
          /\ sdk_calls[1].outcome = "raised" =>
                result = [returned |-> TRUE, success |-> FALSE, count |-> 0]
    /\ ipc # "returned" => result = NoResult

\* a batch of two AgentRuns whose submission raises
C9_Witness ==
    /\ ipc = "returned"
    /\ Len(agent_runs) = 2
    /\ sdk_calls[1].outcome = "raised"
    /\ result.success = FALSE /\ result.count = 0

====
